---- MODULE Spec2Model ----
(***************************************************************************)
(* A model of waveloc's waveform processing (waveloc/OP_waveforms.py) and  *)
(* of the window cutting of PyProgs/plot_locations2.py.                    *)
(*                                                                         *)
(* Conventions.                                                            *)
(*  - Times are integers (ticks); a trace carries its sample interval      *)
(*    delta in ticks, so that int(win/dt) and np.round(t/delta) are real   *)
(*    conversions.                                                         *)
(*  - A stream is a sequence of traces [starttime, delta, data]; stats.npts*)
(*    is Len(data) and stats.endtime is starttime + (npts-1)*delta, as in  *)
(*    obspy.                                                               *)
(*  - Sample values are integers.  Where the code divides by a positive    *)
(*    number (np.gradient by 2*dt, np.mean by the length) the model keeps  *)
(*    the numerator: signs and zeros are exact, magnitudes are scaled.     *)
(*  - An exception leaving an operation is recorded in exc; what the       *)
(*    operation had already written (traces are mutated in place) stays.   *)
(***************************************************************************)
EXTENDS Integers, Sequences, FiniteSets, TLC

VARIABLES
    pc,      \* "call": the operation is still to run, "done": it has run
    op,      \* the operation that ran, with its arguments
    stream,  \* Waveform.stream (a sequence of traces)
    trace,   \* Waveform.trace: 0 is None, 1 is stream.traces[0], 2 is a
             \* trace object that is not in stream
    proc,    \* Waveform.proc
    exc,     \* the exception that left the operation, or "none"
    at,      \* the step of the operation that raised, or "none"
    pre,     \* the stream as it was when the operation was called
    numpy,   \* what np.gradient raises on fewer than 2 samples in this build
    loc,     \* locals of process_gaussian kept for inspection
    rd,      \* read_data_compatible_with_time_dict: its inputs and what it gave
    pl,      \* do_plotting_setup_and_run: one location's inputs and windows
    calls    \* the methods called on the Waveform so far, oldest first

vars == <<pc, op, stream, trace, proc, exc, at, pre, numpy, loc, rd, pl, calls>>

Null == "null"

(***************************************************************************)
(* Bounds of the model.                                                    *)
(***************************************************************************)
MaxLen == 3        \* longest trace of the derivative specification
MaxKLen == 7       \* longest trace of the kurtosis specification
MaxWin == 4        \* longest kurtosis window, in ticks

Vals == {-1, 0, 1}
Deltas == {1, 2}

(***************************************************************************)
(* Small helpers.                                                          *)
(***************************************************************************)
SeqsUpTo(S, n) == UNION {[1..k -> S] : k \in 0..n}

Zeros(n) == [i \in 1..n |-> 0]

RECURSIVE SumSeq(_)
SumSeq(s) == IF Len(s) = 0 THEN 0 ELSE Head(s) + SumSeq(Tail(s))

Max2(a, b) == IF a >= b THEN a ELSE b
Min2(a, b) == IF a <= b THEN a ELSE b

Tr(start, delta, data) == [starttime |-> start, delta |-> delta, data |-> data]

EndTime(tr) == tr.starttime + (Len(tr.data) - 1) * tr.delta

\* The result of a function on a stream: the stream as it is left, and the
\* exception that left the function.
Res(st, e) == [st |-> st, exc |-> e]

(***************************************************************************)
(* stream_rmean: every trace minus its mean.  Kept times the trace length. *)
(***************************************************************************)
RmeanData(x) == [i \in 1..Len(x) |-> Len(x) * x[i] - SumSeq(x)]

stream_rmean(st) == [i \in 1..Len(st) |-> [st[i] EXCEPT !.data = RmeanData(st[i].data)]]

(***************************************************************************)
(* stream_taper: invsim.cosine_taper is called through the name invsim,    *)
(* which the module never binds (it imports cosine_taper itself), so the   *)
(* first trace raises NameError; `except ValueError' does not catch it.    *)
(* An empty stream is returned as it is.                                   *)
(***************************************************************************)
stream_taper(st) == IF Len(st) = 0 THEN Res(st, "none") ELSE Res(st, "NameError")

(***************************************************************************)
(* np.gradient(xs, dt) times 2*dt: central differences inside, first       *)
(* differences at both ends.  Needs at least 2 samples.                    *)
(***************************************************************************)
Gradient(x) ==
    [i \in 1..Len(x) |->
        IF i = 1 THEN 2 * (x[2] - x[1])
        ELSE IF i = Len(x) THEN 2 * (x[Len(x)] - x[Len(x) - 1])
        ELSE x[i + 1] - x[i - 1]]

ClampNegative(x) == [i \in 1..Len(x) |-> IF x[i] < 0 THEN 0 ELSE x[i]]

(***************************************************************************)
(* stream_positive_derivative, trace by trace from trace i on.  On fewer   *)
(* than 2 samples np.gradient raises: IndexError in the numpy the code was *)
(* written for (caught: the trace keeps its data), ValueError in later     *)
(* numpy (not caught: it leaves the function, the earlier traces stay      *)
(* changed).                                                               *)
(***************************************************************************)
RECURSIVE PositiveDerivativeFrom(_, _, _)
PositiveDerivativeFrom(st, i, build) ==
    IF i > Len(st) THEN Res(st, "none")
    ELSE IF Len(st[i].data) < 2
         THEN IF build = "IndexError"
              THEN PositiveDerivativeFrom(st, i + 1, build)
              ELSE Res(st, "ValueError")
         ELSE PositiveDerivativeFrom(
                 [st EXCEPT ![i].data = ClampNegative(Gradient(st[i].data))],
                 i + 1, build)

stream_positive_derivative(st, build) == PositiveDerivativeFrom(st, 1, build)

(***************************************************************************)
(* A Waveform is [stream, trace, proc, exc]; each method maps one to the   *)
(* next.  A method that raised leaves exc set, and the steps after it do   *)
(* not run.                                                                *)
(***************************************************************************)
Wf(st, t, p) == [stream |-> st, trace |-> t, proc |-> p, exc |-> "none", at |-> "none"]

\* self.stream = None, as __init__ leaves it: no Stream object at all.  It is
\* written as a stream of one trace with delta 0, which no Stream can hold.
NoStream == <<Tr(0, 0, <<>>)>>

Raise(w, e, step) == [w EXCEPT !.exc = e, !.at = step]

\* self.trace = self.stream[0], IndexError turned into UserWarning
SetTrace(w, step) ==
    IF Len(w.stream) = 0 THEN Raise(w, "UserWarning", step)
    ELSE [w EXCEPT !.trace = 1]

\* self.stream = f(self.stream) where f works in place and may raise
SetStream(w, r, step) ==
    IF r.exc = "none" THEN [w EXCEPT !.stream = r.st]
    ELSE Raise([w EXCEPT !.stream = r.st], r.exc, step)

Wf_rmean(w, step) ==
    IF w.exc # "none" THEN w
    ELSE IF w.stream = NoStream THEN Raise(w, "TypeError", step)
    ELSE SetTrace([w EXCEPT !.stream = stream_rmean(w.stream)], step)

Wf_taper(w, step) ==
    IF w.exc # "none" THEN w
    ELSE IF w.stream = NoStream THEN Raise(w, "TypeError", step)
    ELSE LET w1 == SetStream(w, stream_taper(w.stream), step)
         IN  IF w1.exc # "none" THEN w1 ELSE SetTrace(w1, step)

Wf_take_positive_derivative(w, pre_rmean, pre_taper, post_taper, build) ==
    LET w1 == IF pre_rmean THEN Wf_rmean(w, "pre_rmean") ELSE w
        w2 == IF pre_taper THEN Wf_taper(w1, "pre_taper") ELSE w1
        w3 == IF w2.exc # "none" THEN w2
              ELSE IF w2.stream = NoStream THEN Raise(w2, "TypeError", "body")
              ELSE SetStream(w2, stream_positive_derivative(w2.stream, build), "body")
        w4 == IF w3.exc # "none" THEN w3 ELSE SetTrace(w3, "body")
    IN  IF post_taper THEN Wf_taper(w4, "post_taper") ELSE w4

(***************************************************************************)
(* filters.sw_kurtosis1, filters.rec_kurtosis_old and filters.smooth are   *)
(* not among the sources; they are modelled from the design document:      *)
(* the sliding kurtosis of n samples over a window of nwin has             *)
(* n - nwin + 1 samples, the recursive kurtosis and the smoothing keep the *)
(* sample count.  The kurtosis values themselves are not modelled: every   *)
(* output sample is the stand-in value kv, which smoothing (a normalised   *)
(* moving average) leaves as it is.                                        *)
(***************************************************************************)
sw_kurtosis1(x, nwin, kv) == [i \in 1..(Len(x) - nwin + 1) |-> kv]

rec_kurtosis_old(x, kv) == [i \in 1..Len(x) |-> kv]

smooth(xs) == [i \in 1..Len(xs) |-> xs[i]]

\* nwin = int(win/dt) for positive win and dt
WindowSamples(win, dt) == win \div dt

(***************************************************************************)
(* One pass of process_kurtosis's loop body, over trace tr.                *)
(***************************************************************************)
KurtosisTraceLate(tr, win, dt, recursive, kv) ==
    IF recursive
    THEN [tr EXCEPT !.data = smooth(rec_kurtosis_old(tr.data, kv))]
    ELSE LET nwin == WindowSamples(win, dt)
         IN  IF Len(tr.data) > 3 * nwin
             THEN [tr EXCEPT !.data = smooth(sw_kurtosis1(tr.data, nwin, kv)),
                             !.starttime = tr.starttime + nwin * dt]
             ELSE [tr EXCEPT !.data = Zeros(Len(tr.data))]

KurtosisTrace(tr, win, dt, recursive, kv) ==
    IF recursive
    THEN [tr EXCEPT !.data = smooth(rec_kurtosis_old(tr.data, kv))]
    ELSE LET nwin == WindowSamples(win, dt)
         IN  IF Len(tr.data) > 3 * nwin
             THEN [tr EXCEPT !.data = smooth(sw_kurtosis1(tr.data, nwin, kv)),
                             !.starttime = tr.starttime + (nwin - 1) * dt]
             ELSE [tr EXCEPT !.data = Zeros(Len(tr.data))]

Wf_process_kurtosis(w, win, recursive, pre_rmean, pre_taper, post_taper, kv) ==
    IF w.trace = 0 THEN Raise(w, "AttributeError", "dt")
    ELSE
    LET dt == w.stream[1].delta
        w1 == IF pre_rmean THEN Wf_rmean(w, "pre_rmean") ELSE w
        w2 == IF pre_taper THEN Wf_taper(w1, "pre_taper") ELSE w1
        w3 == IF w2.exc # "none" THEN w2
              ELSE [w2 EXCEPT !.stream =
                       [i \in 1..Len(w2.stream) |->
                           KurtosisTrace(w2.stream[i], win, dt, recursive, kv)]]
        w4 == IF post_taper THEN Wf_taper(w3, "post_taper") ELSE w3
    IN  IF w4.exc # "none" THEN w4 ELSE [w4 EXCEPT !.proc = "Kurtosis"]

(***************************************************************************)
(* The state machine: a Waveform (or a bare stream) is given, one          *)
(* operation is called on it with arguments drawn from small sets.         *)
(***************************************************************************)
NoOp == [name |-> "none"]

Self == Wf(stream, trace, proc)

\* The Waveform as the operation leaves it.
Finish(w, o) ==
    /\ pc' = "done"
    /\ op' = o
    /\ stream' = w.stream
    /\ trace' = w.trace
    /\ proc' = w.proc
    /\ exc' = w.exc
    /\ at' = w.at
    /\ pre' = stream

\* A Waveform holding stream st: trace is its first trace when it has one.
Holds(st) ==
    /\ pc = "call"
    /\ op = NoOp
    /\ stream = st
    /\ trace = (IF Len(st) = 0 THEN 0 ELSE 1)
    /\ proc = "None"
    /\ exc = "none"
    /\ at = "none"
    /\ pre = <<>>

(***************************************************************************)
(* Specification SpecDeriv: the positive derivative.                       *)
(***************************************************************************)
DerivTraces == {Tr(0, 1, d) : d \in SeqsUpTo(Vals, MaxLen)}

DerivStreams == SeqsUpTo(DerivTraces, 2)

InitDeriv ==
    /\ \E st \in DerivStreams : Holds(st)
    /\ numpy \in {"IndexError", "ValueError"}
    /\ calls = <<>>
    /\ loc = Null /\ rd = Null /\ pl = Null

Call_stream_positive_derivative ==
    /\ pc = "call"
    /\ LET r == stream_positive_derivative(stream, numpy)
       IN  Finish(Raise([Self EXCEPT !.stream = r.st], r.exc,
                        IF r.exc = "none" THEN "none" ELSE "body"),
                  [name |-> "stream_positive_derivative"])
    /\ UNCHANGED <<calls, numpy, loc, rd, pl>>

Call_take_positive_derivative ==
    /\ pc = "call"
    /\ \E pre_rmean \in BOOLEAN, pre_taper \in BOOLEAN, post_taper \in BOOLEAN :
          Finish(Wf_take_positive_derivative(Self, pre_rmean, pre_taper,
                                             post_taper, numpy),
                 [name |-> "take_positive_derivative", pre_rmean |-> pre_rmean,
                  pre_taper |-> pre_taper, post_taper |-> post_taper])
    /\ UNCHANGED <<calls, numpy, loc, rd, pl>>

NextDeriv == Call_stream_positive_derivative \/ Call_take_positive_derivative

SpecDeriv == InitDeriv /\ [][NextDeriv]_vars

Returned == pc = "done" /\ exc = "none"

\* C2: after stream_positive_derivative or take_positive_derivative has
\* returned, every sample of every trace is >= 0, whatever the stream was.
C2_NoNegativeSample ==
    (Returned /\ op.name \in {"stream_positive_derivative", "take_positive_derivative"})
        => \A i \in 1..Len(stream) : \A j \in 1..Len(stream[i].data) :
               stream[i].data[j] >= 0

(***************************************************************************)
(* Specification SpecKurt: process_kurtosis.  Only the length of the data  *)
(* matters to it here, so the traces hold ones.                            *)
(***************************************************************************)
KurtTraces(delta) ==
    {Tr(s, delta, [i \in 1..n |-> 1]) : s \in {0, 20}, n \in 0..MaxKLen}

KurtStreams == UNION {SeqsUpTo(KurtTraces(delta), 2) : delta \in Deltas}

InitKurt ==
    /\ \E st \in KurtStreams : Holds(st)
    /\ numpy = "IndexError"
    /\ calls = <<>>
    /\ loc = Null /\ rd = Null /\ pl = Null

Call_process_kurtosis ==
    /\ pc = "call"
    /\ \E win \in 1..MaxWin, recursive \in BOOLEAN, pre_rmean \in BOOLEAN,
          pre_taper \in BOOLEAN, post_taper \in BOOLEAN, kv \in {1, 2} :
          /\ Len(stream) > 0 => win >= stream[1].delta
          /\ Finish(Wf_process_kurtosis(Self, win, recursive, pre_rmean,
                                        pre_taper, post_taper, kv),
                    [name |-> "process_kurtosis", win |-> win,
                     recursive |-> recursive, pre_rmean |-> pre_rmean,
                     pre_taper |-> pre_taper, post_taper |-> post_taper])
    /\ UNCHANGED <<calls, numpy, loc, rd, pl>>

NextKurt == Call_process_kurtosis

SpecKurt == InitKurt /\ [][NextKurt]_vars

\* process_kurtosis has run its loop over the traces (it may have raised
\* afterwards, in the taper that follows the loop)
KurtLoopRan ==
    /\ pc = "done" /\ op.name = "process_kurtosis"
    /\ at \in {"none", "post_taper"}

Nwin == WindowSamples(op.win, pre[1].delta)

TooShort(i) == Len(pre[i].data) <= 3 * Nwin

\* C3: in non-recursive mode process_kurtosis does not fail on a stream with
\* a trace of at most 3*nwin samples; it leaves such a trace all zero, and the
\* traces with more than 3*nwin samples are processed all the same (they get
\* their len - nwin + 1 kurtosis samples).
C3_ShortTraceZeroedNoFailure ==
    (/\ pc = "done" /\ op.name = "process_kurtosis" /\ ~op.recursive
     /\ \E i \in 1..Len(pre) : TooShort(i))
        => /\ exc = "none"
           /\ Len(stream) = Len(pre)
           /\ \A i \in 1..Len(pre) :
                 IF TooShort(i)
                 THEN stream[i].data = Zeros(Len(pre[i].data))
                 ELSE Len(stream[i].data) = Len(pre[i].data) - Nwin + 1

MinGap == 50       \* the literal 50 of the merging test
MaxBumps == 3      \* most excursions above the threshold in an input trace
GaussLen == 70     \* length of the long input traces

At0(x, i) == x[i + 1]

Abs(a) == IF a < 0 THEN 0 - a ELSE a

RECURSIVE MaxSeq(_)
MaxSeq(x) == IF Len(x) = 1 THEN x[1] ELSE Max2(Head(x), MaxSeq(Tail(x)))

(***************************************************************************)
(* compute_gauss(dt, mu, sig): exp(-(x-mu)^2 / (2 sig^2)) on                *)
(* x = arange(-4 sig, 4 sig, dt), divided by its maximum.  Values are in    *)
(* thousandths: GaussTable[h + 1] is 1000 * exp(-(h/2)^2 / 2) rounded, for  *)
(* a distance of h half-sigmas.  The constant 1/(sig*sqrt(2 pi)) cancels in *)
(* the division by the maximum.                                            *)
(***************************************************************************)
GaussTable == <<1000, 882, 607, 325, 135, 44, 11, 2, 0, 0, 0, 0, 0>>

\* len(np.arange(-win, win, dt)) with win = 4*sig
KernelLen(dt, sig) == (8 * sig + dt - 1) \div dt

GaussRaw(dt, mu, sig) ==
    [j \in 1..KernelLen(dt, sig) |->
        GaussTable[(2 * Abs((0 - 4 * sig) + (j - 1) * dt - mu)) \div sig + 1]]

compute_gauss(dt, mu, sig) ==
    LET y == GaussRaw(dt, mu, sig)
    IN  [j \in 1..Len(y) |-> (1000 * y[j]) \div MaxSeq(y)]

(***************************************************************************)
(* obspy's trigger.triggerOnset(data, thr, thr): the maximal runs of        *)
(* samples above thr, each as <<first index, last index>>, in order; an     *)
(* empty list when no sample is above thr.                                 *)
(***************************************************************************)
Above(data, thr, i) == i >= 0 /\ i < Len(data) /\ At0(data, i) > thr

\* the members of a finite set of integers in increasing order
RECURSIVE Sorted(_)
Sorted(S) ==
    IF S = {} THEN <<>>
    ELSE <<(CHOOSE m \in S : \A e \in S : m <= e)>>
             \o Sorted(S \ {CHOOSE m \in S : \A e \in S : m <= e})

\* where a run starts (the sample before is not above), where it ends
Onsets(data, thr) ==
    {i \in 0..(Len(data) - 1) : Above(data, thr, i) /\ ~Above(data, thr, i - 1)}

Offsets(data, thr) ==
    {i \in 0..(Len(data) - 1) : Above(data, thr, i) /\ ~Above(data, thr, i + 1)}

PairUp(on, off) == [k \in 1..Len(on) |-> <<on[k], off[k]>>]

triggerOnset(data, thr) ==
    PairUp(Sorted(Onsets(data, thr)), Sorted(Offsets(data, thr)))

\* np.argmax(data[istart:iend+1]) + istart: the first index of the maximum
ArgMax(data, istart, iend) ==
    CHOOSE i \in istart..iend :
        /\ \A k \in istart..iend : At0(data, k) <= At0(data, i)
        /\ \A k \in istart..(i - 1) : At0(data, k) < At0(data, i)

(***************************************************************************)
(* One pass of the trigger loop: g is [prec, dirac, hist], the code's       *)
(* trig_prec and tr_dirac and the list of the values trig_prec has taken.   *)
(***************************************************************************)
MergeTrigByGap(prec, trig) ==
    IF trig[1] - prec[2] < MinGap THEN <<prec[1], trig[2]>> ELSE trig

MergeTrig(prec, trig) ==
    IF trig[2] - prec[1] < MinGap THEN <<prec[1], trig[2]>> ELSE trig

PeakIndex(data, t) == IF t[1] # t[2] THEN ArgMax(data, t[1], t[2]) ELSE t[1]

\* x[istart:iend] = 0
ZeroRange(x, istart, iend) ==
    [i \in 1..Len(x) |-> IF i - 1 >= istart /\ i - 1 < iend THEN 0 ELSE x[i]]

WriteImpulseNoErase(dirac, data, t) ==
    [dirac EXCEPT ![PeakIndex(data, t) + 1] = At0(data, PeakIndex(data, t))]

WriteUnitImpulse(dirac, data, t) ==
    [ZeroRange(dirac, t[1], t[2]) EXCEPT ![PeakIndex(data, t) + 1] = 1]

\* tr_dirac[istart:iend] = 0 ; tr_dirac[imax] = np.max(tr.data[imax])
WriteImpulse(dirac, data, t) ==
    [ZeroRange(dirac, t[1], t[2])
        EXCEPT ![PeakIndex(data, t) + 1] = At0(data, PeakIndex(data, t))]

TrigStep(g, data, trig) ==
    LET t == MergeTrig(g.prec, trig)
    IN  [prec |-> t,
         dirac |-> WriteImpulse(g.dirac, data, t),
         hist |-> Append(g.hist, t)]

RECURSIVE TrigLoop(_, _, _, _)
TrigLoop(g, data, trigs, k) ==
    IF k > Len(trigs) THEN g
    ELSE TrigLoop(TrigStep(g, data, trigs[k]), data, trigs, k + 1)

(***************************************************************************)
(* np.convolve(a, v, mode='same'): the middle max(M, N) samples of the      *)
(* full convolution, starting (n - 1) - n div 2 into it, n = min(M, N).     *)
(* ValueError when a is empty.                                             *)
(***************************************************************************)
\* the non-zero samples of a, as <<index, value>>
NonZero(a) ==
    LET idx == Sorted({i \in 0..(Len(a) - 1) : At0(a, i) # 0})
    IN  [k \in 1..Len(idx) |-> <<idx[k], At0(a, idx[k])>>]

\* sample j of the full convolution: the sum of a[i] * v[j - i] over the
\* non-zero a[i] (nz) with j - i an index of v
RECURSIVE FullAt(_, _, _)
FullAt(nz, v, j) ==
    IF Len(nz) = 0 THEN 0
    ELSE (IF j - nz[1][1] >= 0 /\ j - nz[1][1] < Len(v)
          THEN nz[1][2] * At0(v, j - nz[1][1]) ELSE 0)
         + FullAt(Tail(nz), v, j)

SameFrom(nz, v, len, off) == [k \in 1..len |-> FullAt(nz, v, (k - 1) + off)]

ConvolveSame(a, v) ==
    SameFrom(NonZero(a), v, Max2(Len(a), Len(v)),
             (Min2(Len(a), Len(v)) - 1) - (Min2(Len(a), Len(v)) \div 2))

\* the 'same'-mode convolution as it is, no sample dropped
KeepFirst(c) == c

\* np.append(c[1:], 0)
DropFirstAppendZero(c) == Append(Tail(c), 0)

(***************************************************************************)
(* The loop body of process_gaussian over one trace: the trace as it is     *)
(* left, and the locals.                                                   *)
(***************************************************************************)
\* the convolution and its try/except, given the trigger loop's result g
ConvolveTrace(tr, trigs, g, y) ==
    [tr |-> IF Len(g.dirac) = 0 THEN tr
            ELSE [tr EXCEPT !.data = DropFirstAppendZero(ConvolveSame(g.dirac, y))],
     trigs |-> trigs, hist |-> g.hist, dirac |-> g.dirac,
     caught |-> Len(g.dirac) = 0]

TrigLoopOf(tr, trigs) ==
    TrigLoop([prec |-> <<0, 0>>, dirac |-> Zeros(Len(tr.data)), hist |-> <<>>],
             tr.data, trigs, 1)

GaussianTraceOf(tr, trigs, y) == ConvolveTrace(tr, trigs, TrigLoopOf(tr, trigs), y)

GaussianTrace(tr, threshold, y) ==
    GaussianTraceOf(tr, triggerOnset(tr.data, threshold), y)

\* the locals of the call, for inspection: the kernel and, for every trace,
\* what GaussianTrace gives
GaussLocals(w, threshold, mu, sigma) ==
    IF w.trace = 0 THEN Null
    ELSE [y |-> compute_gauss(w.stream[1].delta, mu, sigma),
          tr |-> [i \in 1..Len(w.stream) |->
                     GaussianTrace(w.stream[i], threshold,
                                   compute_gauss(w.stream[1].delta, mu, sigma))]]

\* process_gaussian if the ValueError of the convolution were not caught
Wf_process_gaussian_uncaught(w, lc) ==
    IF w.trace = 0 THEN Raise(w, "AttributeError", "dt")
    ELSE IF \E i \in 1..Len(w.stream) : lc.tr[i].caught
    THEN Raise(w, "ValueError", "convolve")
    ELSE [w EXCEPT !.stream = [i \in 1..Len(w.stream) |-> lc.tr[i].tr],
                   !.proc = "Gaussian"]

\* process_gaussian, given the locals lc of the call
Wf_process_gaussian(w, lc) ==
    IF w.trace = 0 THEN Raise(w, "AttributeError", "dt")
    ELSE [w EXCEPT !.stream = [i \in 1..Len(w.stream) |-> lc.tr[i].tr],
                   !.proc = "Gaussian"]

(***************************************************************************)
(* Specification SpecGauss: process_gaussian on a Waveform.  An input trace *)
(* is zero but for a few excursions (bumps) placed at chosen indices.       *)
(***************************************************************************)
BumpShapes == {<<1>>, <<2, 2>>, <<1, 2, 1>>}

BumpPositions == {0, 3, 20, 47, 52, GaussLen - 3}

\* f maps some positions to the shape of the bump that starts there
PlaceBumps(n, f) ==
    [i \in 1..n |->
        IF \E p \in DOMAIN f : i - 1 >= p /\ i - 1 < p + Len(f[p])
        THEN LET p == CHOOSE q \in DOMAIN f : i - 1 >= q /\ i - 1 < q + Len(f[q])
             IN  f[p][i - p]
        ELSE 0]

BumpMaps ==
    UNION {[P -> BumpShapes] :
              P \in {Q \in SUBSET BumpPositions : Cardinality(Q) <= MaxBumps}}

LongTraces == {Tr(0, 1, PlaceBumps(GaussLen, f)) : f \in BumpMaps}

ShortData == {<<>>, <<2>>, <<0, 1, 2, 1, 0>>, <<1, 0, 0, 2, 1, 0>>}

ShortTraces(delta) == {Tr(0, delta, d) : d \in ShortData}

GaussStreams ==
    {<<t>> : t \in LongTraces}
        \cup UNION {SeqsUpTo(ShortTraces(delta), 2) : delta \in Deltas}

InitGauss ==
    /\ \E st \in GaussStreams : Holds(st)
    /\ numpy = "IndexError"
    /\ calls = <<>>
    /\ loc = Null /\ rd = Null /\ pl = Null

Call_process_gaussian ==
    /\ pc = "call"
    /\ \E threshold \in {0, 1}, m \in {0, 1}, s \in {1, 2} :
          LET dt == IF Len(stream) = 0 THEN 1 ELSE stream[1].delta
              mu == m * dt
              sigma == s * dt
          IN  /\ loc' = GaussLocals(Self, threshold, mu, sigma)
              /\ Finish(Wf_process_gaussian(Self, loc'),
                        [name |-> "process_gaussian", threshold |-> threshold,
                         mu |-> mu, sigma |-> sigma])
    /\ UNCHANGED <<calls, numpy, rd, pl>>

NextGauss == Call_process_gaussian

SpecGauss == InitGauss /\ [][NextGauss]_vars

GaussRan == pc = "done" /\ op.name = "process_gaussian" /\ exc = "none"

(***************************************************************************)
(* Specification SpecTaper: stream_taper, and Waveform.taper, on a stream.  *)
(***************************************************************************)
InitTaper ==
    /\ \E st \in DerivStreams : Holds(st)
    /\ numpy = "IndexError"
    /\ calls = <<>>
    /\ loc = Null /\ rd = Null /\ pl = Null

Call_stream_taper ==
    /\ pc = "call"
    /\ LET r == stream_taper(stream)
       IN  Finish(Raise([Self EXCEPT !.stream = r.st], r.exc,
                        IF r.exc = "none" THEN "none" ELSE "body"),
                  [name |-> "stream_taper"])
    /\ UNCHANGED <<calls, numpy, loc, rd, pl>>

Call_taper ==
    /\ pc = "call"
    /\ Finish(Wf_taper(Self, "taper"), [name |-> "taper"])
    /\ UNCHANGED <<calls, numpy, loc, rd, pl>>

NextTaper == Call_stream_taper \/ Call_taper

SpecTaper == InitTaper /\ [][NextTaper]_vars

\* C13: stream_taper never raises, whatever the lengths of the traces, and
\* leaves every trace with the number of samples it had (tapered, or zeros
\* when the trace is too short to be tapered).
C13_TaperNeverRaisesKeepsCount ==
    pc = "done" /\ op.name = "stream_taper"
        => /\ exc = "none"
           /\ Len(stream) = Len(pre)
           /\ \A i \in 1..Len(stream) : Len(stream[i].data) = Len(pre[i].data)

\* C14: on a trace of fewer than 2 samples stream_positive_derivative does
\* not raise, and leaves the trace with zeros, as many as it had samples.
C14_DegenerateTraceZeroed ==
    pc = "done" /\ op.name = "stream_positive_derivative"
        => /\ (\E i \in 1..Len(pre) : Len(pre[i].data) < 2) => exc = "none"
           /\ exc = "none" =>
                 \A i \in 1..Len(pre) :
                     Len(pre[i].data) < 2
                         => stream[i].data = Zeros(Len(pre[i].data))

(***************************************************************************)
(* Reading.  A file is [station, delta, starttime, data]: one contiguous    *)
(* segment whose sample j (from 0) was recorded at starttime + j*delta.     *)
(***************************************************************************)
MaxFiles == 2      \* most files in a list of file names

File(sta, delta, start, data) ==
    [station |-> sta, delta |-> delta, starttime |-> start, data |-> data]

\* round half away from zero of a / d, d > 0 (obspy's round_away)
RoundAway(a, d) ==
    IF a >= 0 THEN (2 * a + d) \div (2 * d) ELSE 0 - ((2 * (0 - a) + d) \div (2 * d))

\* np.round(a / d), d > 0: halves go to the even neighbour (\div is the
\* floor and % its remainder, also for a < 0)
RoundHalfEven(a, d) ==
    IF 2 * (a % d) < d THEN a \div d
    ELSE IF 2 * (a % d) > d THEN a \div d + 1
    ELSE IF (a \div d) % 2 = 0 THEN a \div d ELSE a \div d + 1

\* Trace._ltrim(starttime, nearest_sample=True): the trace from the sample
\* nearest to starttime on
LTrim(tr, starttime) ==
    LET d == RoundAway(starttime - tr.starttime, tr.delta)
    IN  IF d <= 0 THEN tr
        ELSE Tr(tr.starttime + d * tr.delta, tr.delta,
                SubSeq(tr.data, d + 1, Len(tr.data)))

\* Trace._rtrim(endtime, nearest_sample=True): the trace up to the sample
\* nearest to endtime
RTrim(tr, endtime) ==
    LET d == RoundAway(endtime - tr.starttime, tr.delta) - Len(tr.data) + 1
    IN  IF d >= 0 THEN tr
        ELSE IF endtime < tr.starttime THEN [tr EXCEPT !.data = <<>>]
        ELSE [tr EXCEPT !.data = SubSeq(tr.data, 1, Len(tr.data) + d)]

\* stream.read(filename, starttime=..., endtime=...) and merge(method=-1):
\* the segment cut to the window; traces left empty are removed
ObspyRead(f, starttime, endtime) ==
    LET tr == RTrim(LTrim(Tr(f.starttime, f.delta, f.data), starttime), endtime)
    IN  IF Len(tr.data) = 0 THEN <<>> ELSE <<tr>>

Pad(n, pad_value) == [i \in 1..n |-> pad_value]

\* the padding before the first point of the file
PadFront(tr, starttime, pad_value) ==
    IF tr.starttime - starttime > tr.delta
    THEN LET npts_full_trace == (EndTime(tr) - starttime) \div tr.delta + 1
             n_pad == npts_full_trace - Len(tr.data)
         IN  Tr(starttime, tr.delta, Pad(n_pad, pad_value) \o tr.data)
    ELSE tr

\* the padding after the last point of the file
PadBack(tr, endtime, pad_value) ==
    IF endtime - EndTime(tr) > tr.delta
    THEN LET npts_full_trace == (endtime - tr.starttime) \div tr.delta + 1
         IN  [tr EXCEPT !.data =
                 tr.data \o Pad(npts_full_trace - Len(tr.data), pad_value)]
    ELSE tr

PadStream(st, starttime, endtime, pad_value) ==
    LET st1 == [st EXCEPT ![1] = PadFront(st[1], starttime, pad_value)]
    IN  [st1 EXCEPT ![Len(st1)] = PadBack(st1[Len(st1)], endtime, pad_value)]

\* a read that takes the new stream and leaves self.trace as it was
ReadTailKeepsTrace(w, st0, starttime, endtime, rmean, taper, pad_value) ==
    LET st1 == IF rmean THEN stream_rmean(st0) ELSE st0
        r2 == IF taper THEN stream_taper(st1) ELSE Res(st1, "none")
    IN  IF r2.exc # "none" THEN Raise(w, r2.exc, "taper")
        ELSE IF pad_value # <<>> /\ Len(r2.st) = 0
             THEN Raise(w, "UserWarning", "pad")
        ELSE LET st == IF pad_value = <<>> THEN r2.st
                       ELSE PadStream(r2.st, starttime, endtime, pad_value[1])
             IN  IF Len(st) = 0
                 THEN Raise([w EXCEPT !.stream = st,
                                      !.trace = IF w.trace = 0 THEN 0 ELSE 2],
                            "UserWarning", "trace")
                 ELSE [w EXCEPT !.stream = st, !.proc = "None"]

\* what read_from_file and read_from_SDS do with the stream st0 they read:
\* rmean, taper, padding, and the assignment to the Waveform; pad_value is
\* <<>> for None and <<v>> for the value v
ReadTail(w, st0, starttime, endtime, rmean, taper, pad_value) ==
    LET st1 == IF rmean THEN stream_rmean(st0) ELSE st0
        r2 == IF taper THEN stream_taper(st1) ELSE Res(st1, "none")
    IN  IF r2.exc # "none" THEN Raise(w, r2.exc, "taper")
        ELSE IF pad_value # <<>> /\ Len(r2.st) = 0
             THEN Raise(w, "UserWarning", "pad")
        ELSE LET st == IF pad_value = <<>> THEN r2.st
                       ELSE PadStream(r2.st, starttime, endtime, pad_value[1])
             IN  IF Len(st) = 0
                 THEN Raise([w EXCEPT !.stream = st,
                                      !.trace = IF w.trace = 0 THEN 0 ELSE 2],
                            "UserWarning", "trace")
                 ELSE [w EXCEPT !.stream = st, !.trace = 1, !.proc = "None"]

Wf_read_from_file(w, f, starttime, endtime, rmean, taper, pad_value) ==
    ReadTail(w, ObspyRead(f, starttime, endtime), starttime, endtime,
             rmean, taper, pad_value)

\* the files of the archive whose header times touch the window
WithinTimes(f, starttime, endtime) ==
    f.starttime < endtime /\ EndTime(f) > starttime

\* st.merge(method=-1) on traces in time order: a trace that starts one
\* sample interval after the end of the one before it is joined to it
RECURSIVE MergeAdjacent(_)
MergeAdjacent(st) ==
    IF Len(st) <= 1 THEN st
    ELSE IF st[2].delta = st[1].delta
            /\ st[2].starttime = EndTime(st[1]) + st[1].delta
         THEN MergeAdjacent(
                  <<[st[1] EXCEPT !.data = st[1].data \o st[2].data]>>
                      \o SubSeq(st, 3, Len(st)))
         ELSE <<st[1]>> \o MergeAdjacent(Tail(st))

\* the traces read from the files of the archive, file after file
RECURSIVE ReadFilesWithin(_, _, _)
ReadFilesWithin(archive, starttime, endtime) ==
    IF Len(archive) = 0 THEN <<>>
    ELSE (IF WithinTimes(archive[1], starttime, endtime)
          THEN ObspyRead(archive[1], starttime, endtime) ELSE <<>>)
         \o ReadFilesWithin(Tail(archive), starttime, endtime)

\* read_from_SDS: archive is the list of the files that the glob finds for
\* the station and component, in time order
Wf_read_from_SDS(w, archive, starttime, endtime, rmean, taper, pad_value) ==
    IF Len(archive) = 0 THEN Raise(w, "IndexError", "glob")
    ELSE ReadTail(w, MergeAdjacent(ReadFilesWithin(archive, starttime, endtime)),
                  starttime, endtime, rmean, taper, pad_value)

\* Waveform(): no stream, no trace, no processing
NewWaveform == Wf(<<>>, 0, Null)

\* the loop of read_data_compatible_with_time_dict from file k on:
\* g is [data, deltas], data a function from station names to sample arrays
RECURSIVE ReadLoop(_, _, _, _, _, _)
ReadLoop(g, filenames, k, time_dict, starttime, endtime) ==
    IF k > Len(filenames) THEN g
    ELSE LET f == filenames[k]
             wf == Wf_read_from_file(NewWaveform, f, starttime, endtime,
                                     FALSE, FALSE, <<0>>)
             deltas == Append(g.deltas, f.delta)
         IN  ReadLoop(
                 IF f.station \in time_dict /\ wf.exc = "none"
                 THEN [data |-> (f.station :> wf.stream[1].data) @@ g.data,
                       deltas |-> deltas]
                 ELSE [data |-> g.data, deltas |-> deltas],
                 filenames, k + 1, time_dict, starttime, endtime)

Range(x) == {x[i] : i \in DOMAIN x}

\* what the call gives: the exception that leaves it, or the pair returned
read_data_compatible_with_time_dict(filenames, time_dict, starttime, endtime) ==
    LET g == ReadLoop([data |-> <<>>, deltas |-> <<>>], filenames, 1,
                      time_dict, starttime, endtime)
    IN  IF Cardinality(Range(g.deltas)) > 1
        THEN [exc |-> "UserWarning", data |-> Null, delta |-> Null,
              deltas |-> g.deltas]
        ELSE IF Len(g.deltas) = 0
        THEN [exc |-> "IndexError", data |-> Null, delta |-> Null,
              deltas |-> g.deltas]
        ELSE [exc |-> "none", data |-> g.data, delta |-> g.deltas[1],
              deltas |-> g.deltas]

(***************************************************************************)
(* Specification SpecRead: read_data_compatible_with_time_dict on a list of *)
(* files.  Sample j of a file has the value j + 1, the padding value is 0.  *)
(***************************************************************************)
Stations == {"A", "B", "X"}
TimeDict == {"A", "B"}
ReadDeltas == {2, 4}
FileStarts == {8, 12, 40}
FileLens == {2, 6}
ReadStart == 10
ReadEnd == 20

Ramp(n) == [j \in 1..n |-> j]

ReadFiles ==
    {File(sta, d, t, Ramp(n)) :
        sta \in Stations, d \in ReadDeltas, t \in FileStarts, n \in FileLens}

InitRead ==
    /\ \E fs \in SeqsUpTo(ReadFiles, MaxFiles) :
          rd = [filenames |-> fs, time_dict |-> TimeDict,
                starttime |-> ReadStart, endtime |-> ReadEnd, result |-> Null]
    /\ Holds(<<>>)
    /\ numpy = "IndexError"
    /\ calls = <<>>
    /\ loc = Null /\ pl = Null

Call_read_data_compatible_with_time_dict ==
    /\ pc = "call"
    /\ rd' = [rd EXCEPT !.result =
                 read_data_compatible_with_time_dict(
                     rd.filenames, rd.time_dict, rd.starttime, rd.endtime)]
    /\ pc' = "done"
    /\ op' = [name |-> "read_data_compatible_with_time_dict"]
    /\ exc' = rd'.result.exc
    /\ UNCHANGED <<calls, stream, trace, proc, at, pre, numpy, loc, pl>>

NextRead == Call_read_data_compatible_with_time_dict

SpecRead == InitRead /\ [][NextRead]_vars

ReadDone == pc = "done" /\ op.name = "read_data_compatible_with_time_dict"

\* files whose station is in time_dict and that have data in the window
Usable(f) ==
    /\ f.station \in rd.time_dict
    /\ ObspyRead(f, rd.starttime, rd.endtime) # <<>>

\* C9: read_data_compatible_with_time_dict raises UserWarning whenever the
\* sample intervals of the files differ, and otherwise returns the data of
\* the stations together with the one sample interval they all have.
C9_UserWarningIffDeltasDiffer ==
    ReadDone =>
        IF \E i, j \in 1..Len(rd.filenames) :
               rd.filenames[i].delta # rd.filenames[j].delta
        THEN rd.result.exc = "UserWarning"
        ELSE /\ rd.result.exc = "none"
             /\ \A i \in 1..Len(rd.filenames) :
                   rd.result.delta = rd.filenames[i].delta

\* C10: when no file yields usable data (no files, or every file skipped)
\* the call fails with UserWarning; it does not return an empty dictionary.
C10_NoUsableDataIsUserWarning ==
    ReadDone /\ (\A i \in 1..Len(rd.filenames) : ~Usable(rd.filenames[i]))
        => rd.result.exc = "UserWarning"

\* the files of the list that are not skipped
UsableFiles == SelectSeq(rd.filenames, Usable)

\* C11: a file that is skipped (station not in time_dict, or no data in the
\* window) never makes the call fail: the call gives what it gives on the
\* list without the skipped files, and every key of the data returned is a
\* key of time_dict.
C11_SkippedFilesDoNotMatter ==
    ReadDone =>
        LET without == read_data_compatible_with_time_dict(
                           UsableFiles, rd.time_dict, rd.starttime, rd.endtime)
        IN  /\ rd.result.exc = without.exc
            /\ rd.result.data = without.data
            /\ rd.result.delta = without.delta
            /\ rd.result.exc = "none" => DOMAIN rd.result.data \subseteq rd.time_dict

(***************************************************************************)
(* Specification SpecFile: read_from_file and read_from_SDS on a Waveform   *)
(* that is new or already holds a processed stream.  The archive is a list  *)
(* of files of one station, in time order and without overlap; the file     *)
(* that read_from_file reads is an archive of one file.                     *)
(***************************************************************************)
SegStarts == {4, 10, 11, 12, 14, 16, 20, 40}
SegLens == {1, 2, 4}

Segments == {File("A", 2, t, Ramp(n)) : t \in SegStarts, n \in SegLens}

InOrder(a) == \A i \in 1..(Len(a) - 1) : a[i + 1].starttime > EndTime(a[i])

Archives == {a \in SeqsUpTo(Segments, MaxFiles) : InOrder(a)}

\* the stream held before the call: none (a new Waveform) or a processed one
HeldBefore == {Wf(<<>>, 0, Null), Wf(<<Tr(0, 2, <<5, 5>>)>>, 1, "Kurtosis")}

InitFile ==
    /\ \E a \in Archives, rm \in BOOLEAN, tp \in BOOLEAN, pv \in {<<>>, <<0>>} :
          rd = [archive |-> a, starttime |-> ReadStart, endtime |-> ReadEnd,
                rmean |-> rm, taper |-> tp, pad_value |-> pv]
    /\ \E w \in HeldBefore :
          stream = w.stream /\ trace = w.trace /\ proc = w.proc
    /\ pc = "call" /\ op = NoOp /\ exc = "none" /\ at = "none" /\ pre = <<>>
    /\ numpy = "IndexError"
    /\ calls = <<>>
    /\ loc = Null /\ pl = Null

Call_read_from_file ==
    /\ pc = "call"
    /\ Len(rd.archive) = 1
    /\ Finish(Wf_read_from_file(Self, rd.archive[1], rd.starttime, rd.endtime,
                                rd.rmean, rd.taper, rd.pad_value),
              [name |-> "read_from_file", proc |-> proc, trace |-> trace])
    /\ UNCHANGED <<calls, numpy, loc, rd, pl>>

Call_read_from_SDS ==
    /\ pc = "call"
    /\ Finish(Wf_read_from_SDS(Self, rd.archive, rd.starttime, rd.endtime,
                               rd.rmean, rd.taper, rd.pad_value),
              [name |-> "read_from_SDS", proc |-> proc, trace |-> trace])
    /\ UNCHANGED <<calls, numpy, loc, rd, pl>>

NextFile == Call_read_from_file \/ Call_read_from_SDS

SpecFile == InitFile /\ [][NextFile]_vars

FileRead == pc = "done" /\ op.name \in {"read_from_file", "read_from_SDS"}

\* the contiguous pieces of data the archive holds
Pieces == MergeAdjacent([i \in 1..Len(rd.archive) |->
              Tr(rd.archive[i].starttime, rd.archive[i].delta, rd.archive[i].data)])

OnePieceInside ==
    /\ Len(Pieces) = 1
    /\ Pieces[1].starttime >= rd.starttime
    /\ EndTime(Pieces[1]) <= rd.endtime

\* the sample positions starttime + j*delta that lie before time t
PositionsBefore(t, delta) == ((t - rd.starttime) + delta - 1) \div delta

\* C12: after a read with pad_value set of one contiguous segment inside
\* [starttime, endtime], the trace starts at starttime, has
\* floor((endtime - starttime)/delta) + 1 samples, holds pad_value at every
\* position before the first and after the last data point, and the
\* original samples unchanged and in order in between.
C12_PaddedToWindow ==
    FileRead /\ exc = "none" /\ rd.pad_value # <<>> /\ ~rd.rmean /\ ~rd.taper
             /\ OnePieceInside
        => LET seg == Pieces[1]
               n == (rd.endtime - rd.starttime) \div seg.delta + 1
               a == PositionsBefore(seg.starttime, seg.delta)
           IN  /\ Len(stream) = 1
               /\ stream[1].starttime = rd.starttime
               /\ Len(stream[1].data) = n
               /\ stream[1].data =
                     Pad(a, rd.pad_value[1]) \o seg.data
                         \o Pad(n - a - Len(seg.data), rd.pad_value[1])

\* C21: a read_from_file or read_from_SDS that raises UserWarning because
\* there are no data in the window leaves the Waveform as it was: stream,
\* trace and proc are those of before the call, with pad_value set or not.
C21_FailedReadChangesNothing ==
    (FileRead /\ exc = "UserWarning") =>
        /\ stream = pre
        /\ trace = op.trace
        /\ proc = op.proc

(***************************************************************************)
(* The other methods of Waveform.  The obspy functions they call are stood  *)
(* in for by functions with the same sample counts: the values they give    *)
(* are not what obspy computes.                                             *)
(***************************************************************************)
\* filter.bandpass: as many samples as it is given (first differences)
Bandpass(x) == [i \in 1..Len(x) |-> IF i = 1 THEN x[1] ELSE x[i] - x[i - 1]]

\* filter.envelope: as many samples as it is given (absolute values)
Envelope(x) == [i \in 1..Len(x) |-> Abs(x[i])]

\* trigger.classicSTALTA: as many samples as it is given, zero over the
\* first nlta - 1 of them
ClassicSTALTA(x, nsta, nlta) ==
    [i \in 1..Len(x) |-> IF i < nlta THEN 0 ELSE Abs(x[i])]

\* x[::factor]
EveryNth(x, factor) ==
    [i \in 1..((Len(x) + factor - 1) \div factor) |-> x[(i - 1) * factor + 1]]

Downsample(tr, factor) ==
    [tr EXCEPT !.data = EveryNth(tr.data, factor), !.delta = tr.delta * factor]

\* a method that goes through self.trace was called and self.trace is None
NoTrace(w, step) == Raise(w, "AttributeError", step)

Wf_bp_filter(w, rmean, taper) ==
    LET w1 == IF rmean THEN Wf_rmean(w, "rmean") ELSE w
        w2 == IF taper THEN Wf_taper(w1, "taper") ELSE w1
    IN  IF w2.exc # "none" THEN w2
        ELSE IF w2.stream = NoStream THEN Raise(w2, "AttributeError", "count")
        ELSE SetTrace([w2 EXCEPT !.stream =
                          [i \in 1..Len(w2.stream) |->
                              [w2.stream[i] EXCEPT !.data = Bandpass(w2.stream[i].data)]]],
                      "trace")

\* resample by an integer factor: every trace of the stream
Wf_resample(w, factor) ==
    IF w.trace = 0 THEN NoTrace(w, "delta")
    ELSE [w EXCEPT !.stream =
             [i \in 1..Len(w.stream) |-> Downsample(w.stream[i], factor)]]

\* decimate: self.trace only
Wf_decimate(w, factor) ==
    IF w.trace = 0 THEN NoTrace(w, "trace")
    ELSE [w EXCEPT !.stream[1] = Downsample(w.stream[1], factor)]

\* get_snr changes nothing; np.max of an empty slice raises ValueError
Wf_get_snr(w) ==
    IF w.trace = 0 THEN NoTrace(w, "trace")
    ELSE IF Len(w.stream[1].data) = 0 THEN Raise(w, "ValueError", "max")
    ELSE w

\* write_to_file casts the samples to int32 in place: integers stay
Wf_write_to_file(w) ==
    IF w.stream = NoStream THEN Raise(w, "TypeError", "for") ELSE w

\* write_to_file_filled works on a copy of the stream
Wf_write_to_file_filled(w) ==
    IF w.stream = NoStream THEN Raise(w, "AttributeError", "copy") ELSE w

Wf_process_none(w) == [w EXCEPT !.proc = "None"]

Wf_process_envelope(w) ==
    IF w.trace = 0 THEN NoTrace(w, "values")
    ELSE [w EXCEPT !.stream[1].data = Envelope(w.stream[1].data),
                   !.proc = "Envelope"]

Wf_process_sta_lta(w, stawin, ltawin) ==
    IF w.trace = 0 THEN NoTrace(w, "delta")
    ELSE [w EXCEPT !.stream[1].data =
                       ClassicSTALTA(w.stream[1].data,
                                     stawin \div w.stream[1].delta,
                                     ltawin \div w.stream[1].delta),
                   !.proc = "StaLta"]

(***************************************************************************)
(* Specification SpecOps: a Waveform, new or just read, and up to MaxOps    *)
(* method calls on it.  The calls stop at the first exception.  The kernel  *)
(* of process_gaussian is in thousandths, so that every call of it scales   *)
(* the samples by 1000: it is called once at most.                          *)
(***************************************************************************)
MaxOps == 3        \* most method calls in a row

OpsFileInside == File("A", 2, 12, <<1, -1, 2, 0>>)
OpsFileOutside == File("A", 2, 40, <<1, 2>>)
OpsFiles == {OpsFileInside, OpsFileOutside}

\* new; left with an empty Stream by a read that found no data; just read
OpsBefore ==
    {Wf(NoStream, 0, Null),
     Wf(<<>>, 0, Null),
     Wf(<<Tr(10, 2, <<0, 1, -1, 2, 0>>)>>, 1, "None"),
     Wf(<<Tr(10, 2, <<0, 1, -1, 2, 0>>), Tr(30, 2, <<1, 0>>)>>, 1, "None")}

InitOps ==
    /\ \E w \in OpsBefore :
          stream = w.stream /\ trace = w.trace /\ proc = w.proc
    /\ pc = "call" /\ op = NoOp /\ exc = "none" /\ at = "none" /\ pre = <<>>
    /\ numpy = "IndexError"
    /\ calls = <<>>
    /\ loc = Null /\ rd = Null /\ pl = Null

\* the Waveform holds data: a Stream with a trace, and trace is its first
HoldsData(w) == w.stream # NoStream /\ Len(w.stream) > 0 /\ w.trace = 1

\* the Waveform as the call o leaves it; another call may follow
Step(w, o) ==
    /\ calls' = Append(calls, [name |-> o.name, held |-> HoldsData(Self)])
    /\ pc' = IF w.exc = "none" /\ Len(calls) + 1 < MaxOps THEN "call" ELSE "done"
    /\ op' = o
    /\ stream' = w.stream
    /\ trace' = w.trace
    /\ proc' = w.proc
    /\ exc' = w.exc
    /\ at' = w.at
    /\ pre' = stream
    /\ UNCHANGED <<numpy, loc, rd, pl>>

Do_read_from_file ==
    /\ pc = "call"
    /\ \E f \in OpsFiles, pv \in {<<>>, <<0>>} :
           Step(Wf_read_from_file(Self, f, ReadStart, ReadEnd, FALSE, FALSE, pv),
                [name |-> "read_from_file", nodata |-> f = OpsFileOutside])

Do_read_from_SDS ==
    /\ pc = "call"
    /\ \E a \in {<<>>, <<OpsFileInside>>, <<OpsFileOutside>>}, pv \in {<<>>, <<0>>} :
           Step(Wf_read_from_SDS(Self, a, ReadStart, ReadEnd, FALSE, FALSE, pv),
                [name |-> "read_from_SDS", nodata |-> a # <<OpsFileInside>>])

Do_rmean ==
    /\ pc = "call"
    /\ Step(Wf_rmean(Self, "rmean"), [name |-> "rmean"])

Do_taper ==
    /\ pc = "call"
    /\ Step(Wf_taper(Self, "taper"), [name |-> "taper"])

Do_bp_filter ==
    /\ pc = "call"
    /\ \E rm \in BOOLEAN, tp \in BOOLEAN :
           Step(Wf_bp_filter(Self, rm, tp),
                [name |-> "bp_filter", rmean |-> rm, taper |-> tp])

Do_take_positive_derivative ==
    /\ pc = "call"
    /\ \E post_taper \in BOOLEAN :
           Step(Wf_take_positive_derivative(Self, FALSE, FALSE, post_taper, numpy),
                [name |-> "take_positive_derivative", post_taper |-> post_taper])

Do_resample ==
    /\ pc = "call"
    /\ Step(Wf_resample(Self, 2), [name |-> "resample"])

Do_decimate ==
    /\ pc = "call"
    /\ Step(Wf_decimate(Self, 2), [name |-> "decimate"])

Do_get_snr ==
    /\ pc = "call"
    /\ Step(Wf_get_snr(Self), [name |-> "get_snr"])

Do_write_to_file ==
    /\ pc = "call"
    /\ Step(Wf_write_to_file(Self), [name |-> "write_to_file"])

Do_write_to_file_filled ==
    /\ pc = "call"
    /\ Step(Wf_write_to_file_filled(Self), [name |-> "write_to_file_filled"])

Do_process_none ==
    /\ pc = "call"
    /\ Step(Wf_process_none(Self), [name |-> "process_none"])

Do_process_envelope ==
    /\ pc = "call"
    /\ Step(Wf_process_envelope(Self), [name |-> "process_envelope"])

Do_process_sta_lta ==
    /\ pc = "call"
    /\ Step(Wf_process_sta_lta(Self, 2, 4), [name |-> "process_sta_lta"])

Do_process_kurtosis ==
    /\ pc = "call"
    /\ \E recursive \in BOOLEAN, post_taper \in BOOLEAN :
           Step(Wf_process_kurtosis(Self, 2, recursive, FALSE, FALSE, post_taper, 1),
                [name |-> "process_kurtosis", recursive |-> recursive,
                 post_taper |-> post_taper])

Do_process_gaussian ==
    /\ pc = "call"
    /\ \A k \in 1..Len(calls) : calls[k].name # "process_gaussian"
    /\ Step(Wf_process_gaussian(Self, GaussLocals(Self, 0, 0, 2)),
            [name |-> "process_gaussian"])

NextOps ==
    \/ Do_read_from_file
    \/ Do_read_from_SDS
    \/ Do_rmean
    \/ Do_taper
    \/ Do_bp_filter
    \/ Do_take_positive_derivative
    \/ Do_resample
    \/ Do_decimate
    \/ Do_get_snr
    \/ Do_write_to_file
    \/ Do_write_to_file_filled
    \/ Do_process_none
    \/ Do_process_envelope
    \/ Do_process_sta_lta
    \/ Do_process_kurtosis
    \/ Do_process_gaussian

SpecOps == InitOps /\ [][NextOps]_vars

\* the stream the last call was made on had no data
NoDataBefore == pre = NoStream \/ Len(pre) = 0

\* C16: the methods documented with ':raises UserWarning' report the lack
\* of data by UserWarning and by no other exception: the two reads when
\* there are no data in the window, rmean, taper, bp_filter and
\* take_positive_derivative when the stream has no data.
C16_NoDataIsUserWarning ==
    /\ op.name \in {"read_from_file", "read_from_SDS"} /\ op.nodata
          => exc = "UserWarning"
    /\ op.name \in {"rmean", "taper", "bp_filter", "take_positive_derivative"}
          /\ NoDataBefore
          => exc = "UserWarning"

\* the methods that set the processing tag, and the tag each one sets
Tagging ==
    {"read_from_file", "read_from_SDS", "process_none", "process_envelope",
     "process_sta_lta", "process_kurtosis", "process_gaussian"}

TagOf(name) ==
    CASE name = "process_envelope" -> "Envelope"
      [] name = "process_sta_lta" -> "StaLta"
      [] name = "process_kurtosis" -> "Kurtosis"
      [] name = "process_gaussian" -> "Gaussian"
      [] OTHER -> "None"

\* the call a step makes
LastCall == calls'[Len(calls')]

\* C19: proc is 'None' after a successful read, and after process_none,
\* process_envelope, process_sta_lta, process_kurtosis and process_gaussian
\* on a Waveform that holds data it is the tag of that method, so that it
\* is always the tag of the most recent of them; every other method
\* (rmean, taper, bp_filter, take_positive_derivative, resample, decimate,
\* get_snr, the writes) leaves it as it was.
C19_ProcIsTagOfLatest ==
    [][ IF LastCall.name \in {"read_from_file", "read_from_SDS"}
        THEN exc' = "none" => proc' = "None"
        ELSE IF LastCall.name \in Tagging
        THEN (LastCall.held \/ exc' = "none") => proc' = TagOf(LastCall.name)
        ELSE proc' = proc ]_vars

\* the methods C20 is about
KeepTrace ==
    {"read_from_file", "read_from_SDS", "rmean", "taper", "bp_filter",
     "resample", "take_positive_derivative", "process_kurtosis",
     "process_gaussian"}

\* every call so far was one of the methods of S and none has raised
AllCallsIn(S) ==
    /\ exc = "none"
    /\ \A k \in 1..Len(calls) : calls[k].name \in S

\* C20: after any sequence of successful calls of read_from_file,
\* read_from_SDS, rmean, taper, bp_filter, resample,
\* take_positive_derivative, process_kurtosis and process_gaussian that
\* leaves a stream with at least one trace, self.trace is the first trace
\* of self.stream.
C20_TraceIsFirstOfStream ==
    (AllCallsIn(KeepTrace) /\ stream # NoStream /\ Len(stream) > 0) => trace = 1

C20_Witness ==
    /\ AllCallsIn(KeepTrace) /\ stream # NoStream /\ Len(stream) > 0
    /\ Len(calls) = MaxOps
    /\ ~calls[1].held
    /\ calls[1].name = "read_from_SDS"
    /\ calls[2].name = "process_kurtosis"
    /\ trace = 1

(***************************************************************************)
(* Migration.  do_plotting_setup_and_run hands the data dictionary of      *)
(* read_data_compatible_with_time_dict, its sample interval and the start  *)
(* time of the read to do_migration_loop_continuous, whose code is not     *)
(* among the sources; it is modelled here from section 4.2 of the          *)
(* specification (MigrationEngine.migrate) for one grid node: the sample   *)
(* of station s at absolute time t goes to time t - tt(s) of the node's    *)
(* stack, the stations are summed sample by sample on the output axis,     *)
(* a station contributes zero where its series does not cover the axis, a  *)
(* station without a travel time is left out, and an empty set of stations *)
(* is a precondition failure.  data[s] is the bare array of station s,     *)
(* its first sample at start_time.                                         *)
(***************************************************************************)
\* the value of a series at absolute time t, zero where it has no sample
ValueAt(x, start_time, delta, t) ==
    LET k == (t - start_time) \div delta + 1
    IN  IF (t - start_time) % delta = 0 /\ k \in 1..Len(x) THEN x[k] ELSE 0

\* the alignment the wrong way round: the sample at t goes to t + tt(s)
RECURSIVE ContributionsDelayed(_, _, _, _, _, _)
ContributionsDelayed(S, data, start_time, delta, ttimes, t) ==
    IF S = {} THEN 0
    ELSE LET s == CHOOSE s0 \in S : TRUE
         IN  ValueAt(data[s], start_time, delta, t - ttimes[s])
             + ContributionsDelayed(S \ {s}, data, start_time, delta, ttimes, t)

\* what the stations of S add up to at time t of the node's stack
RECURSIVE Contributions(_, _, _, _, _, _)
Contributions(S, data, start_time, delta, ttimes, t) ==
    IF S = {} THEN 0
    ELSE LET s == CHOOSE s0 \in S : TRUE
         IN  ValueAt(data[s], start_time, delta, t + ttimes[s])
             + Contributions(S \ {s}, data, start_time, delta, ttimes, t)

migrate(data, delta, start_time, ttimes, outputStart, nOut) ==
    IF DOMAIN data = {}
    THEN [exc |-> "PreconditionError", stack |-> <<>>]
    ELSE [exc |-> "none",
          stack |-> [k \in 1..nOut |->
                        Contributions(DOMAIN data \cap DOMAIN ttimes, data,
                                      start_time, delta, ttimes,
                                      outputStart + (k - 1) * delta)]]

(***************************************************************************)
(* Specification SpecMig: one migration of one or two stations to one      *)
(* node.  Station A carries a unit impulse at sample MigImpulse of a       *)
(* series of MigLen samples; station B, when present, carries a ramp.      *)
(***************************************************************************)
MigLen == 6        \* samples of a station's series
MaxShift == 3      \* longest travel time, in samples
MigStarts == {0, 10}
MigOffsets == {-2, 0, 2}      \* output start relative to the data, in samples
MigOutLens == {3, 6}

UnitImpulse(n, i) == [j \in 1..n |-> IF j = i THEN 1 ELSE 0]

InitMig ==
    /\ \E i \in 1..MigLen, st \in MigStarts, d \in Deltas, a \in 0..MaxShift,
          o \in MigOffsets, n \in MigOutLens,
          others \in {<<>>, <<"B", 0>>, <<"B", 1>>} :
          rd = [data |-> IF others = <<>>
                         THEN [s \in {"A"} |-> UnitImpulse(MigLen, i)]
                         ELSE [s \in {"A", "B"} |->
                                  IF s = "A" THEN UnitImpulse(MigLen, i)
                                  ELSE Ramp(MigLen)],
                delta |-> d, start_time |-> st,
                ttimes |-> IF others = <<>>
                           THEN [s \in {"A"} |-> a * d]
                           ELSE [s \in {"A", "B"} |->
                                    IF s = "A" THEN a * d ELSE others[2] * d],
                outputStart |-> st + o * d, nOut |-> n,
                t0 |-> st + (i - 1) * d]
    /\ Holds(<<>>)
    /\ loc = Null /\ numpy = Null /\ pl = Null
    /\ calls = <<>>

Call_migrate ==
    /\ pc = "call"
    /\ loc' = migrate(rd.data, rd.delta, rd.start_time, rd.ttimes,
                      rd.outputStart, rd.nOut)
    /\ pc' = "done"
    /\ op' = [name |-> "migrate"]
    /\ exc' = loc'.exc
    /\ UNCHANGED <<calls, stream, trace, proc, at, pre, numpy, rd, pl>>

NextMig == Call_migrate

SpecMig == InitMig /\ [][NextMig]_vars

MigDone == pc = "done" /\ op.name = "migrate"

\* the output time of the first maximum of the stack
StackMaxTime ==
    LET k == CHOOSE i \in 1..Len(loc.stack) :
                 /\ loc.stack[i] = MaxSeq(loc.stack)
                 /\ \A j \in 1..(i - 1) : loc.stack[j] < loc.stack[i]
    IN  rd.outputStart + (k - 1) * rd.delta

\* one station, and the impulse moved back by its travel time is on the axis
ImpulseInsideOutput ==
    /\ DOMAIN rd.data = {"A"}
    /\ rd.t0 - rd.ttimes["A"] >= rd.outputStart
    /\ rd.t0 - rd.ttimes["A"] < rd.outputStart + rd.nOut * rd.delta

\* C17: migrating one station whose characteristic function is a unit
\* impulse at t0, with travel time tt to the node, gives a stack whose
\* maximum is at output time t0 - tt whenever t0 - tt is inside the output
\* window: the stack is 1 there and 0 everywhere else.
C17_ImpulseMaxAtT0MinusTT ==
    (MigDone /\ ImpulseInsideOutput) =>
        /\ loc.exc = "none"
        /\ StackMaxTime = rd.t0 - rd.ttimes["A"]
        /\ \A k \in 1..Len(loc.stack) :
              loc.stack[k] =
                  IF rd.outputStart + (k - 1) * rd.delta = rd.t0 - rd.ttimes["A"]
                  THEN 1 ELSE 0

C17_Witness ==
    /\ MigDone /\ ImpulseInsideOutput
    /\ rd.ttimes["A"] > 0
    /\ rd.t0 - rd.ttimes["A"] > rd.outputStart
    /\ MaxSeq(loc.stack) = 1

\* a file of a station of time_dict with no sample in the window
NoOverlap(f) ==
    /\ f.station \in rd.time_dict
    /\ ObspyRead(f, rd.starttime, rd.endtime) = <<>>

Overlapping == SelectSeq(rd.filenames, LAMBDA f : ~NoOverlap(f))

\* the stack of one node from what read_data_compatible_with_time_dict
\* returned, over the window that was read
NodeStack(res) ==
    migrate(res.data, res.delta, rd.starttime,
            [s \in rd.time_dict |-> IF s = "A" THEN res.delta ELSE 0],
            rd.starttime, (rd.endtime - rd.starttime) \div res.delta + 1)

\* C18: a station whose data have no overlap with the window never makes
\* the run raise and adds nothing to the stack: whenever the run succeeds
\* on the other files, it succeeds with that station's file in the list as
\* well, and the stack is the one of the other files alone.
C18_NoOverlapStationAddsNothing ==
    (ReadDone /\ \E k \in 1..Len(rd.filenames) : NoOverlap(rd.filenames[k])) =>
        LET without == read_data_compatible_with_time_dict(
                           Overlapping, rd.time_dict, rd.starttime, rd.endtime)
        IN  without.exc = "none" =>
                /\ rd.result.exc = "none"
                /\ NodeStack(rd.result) = NodeStack(without)

(***************************************************************************)
(* do_plotting_setup_and_run, the waveform branch for one location p:       *)
(* [o_time, plot_tbefore, plot_tafter, ttimes, data_files, mig_files,       *)
(*  stack_start_time, max_val].  ttimes maps the stations of time_grids to  *)
(* their travel times to the location.                                      *)
(***************************************************************************)
\* the largest value of a function
MaxOf(f) == CHOOSE m \in Range(f) : \A v \in Range(f) : v <= m

\* x[a:b] of Python: a negative index counts from the end
PyIndex(i, n) == IF i < 0 THEN Max2(i + n, 0) ELSE Min2(i, n)

PySlice(x, a, b) == SubSeq(x, PyIndex(a, Len(x)) + 1, PyIndex(b, Len(x)))

\* the cut of one station: istart, iend and the sanity checks
StationCut(p, start_time, start_time_migration, delta, sta, tmp) ==
    LET istart == RoundHalfEven(start_time + p.ttimes[sta] - start_time_migration,
                                delta)
        iend == istart + RoundHalfEven(p.plot_tbefore + p.plot_tafter, delta)
    IN  [istart |-> IF istart < 0 THEN 0 ELSE istart,
         iend |-> IF iend > Len(tmp) THEN Len(tmp) ELSE iend]

\* the relevant portion of the stack maximum
StackCut(p, start_time, delta) ==
    LET istart == RoundHalfEven(p.o_time - p.plot_tbefore - p.stack_start_time,
                                delta)
        iend == istart + RoundHalfEven(p.plot_tbefore + p.plot_tafter, delta)
    IN  [start_time |-> IF istart < 0 THEN start_time + Abs(istart) * delta
                        ELSE start_time,
         istart |-> IF istart < 0 THEN 0 ELSE istart,
         iend |-> IF iend > Len(p.max_val) THEN Len(p.max_val) ELSE iend]

PlotFailed(e) ==
    [exc |-> e, start_time |-> Null, delta |-> Null, cut |-> Null,
     data_dict |-> Null, mig_dict |-> Null, stack_wfm |-> Null]

\* a window without the margin of the largest travel time
MigrationWindowNoMargin(p) ==
    [starttime |-> p.o_time - p.plot_tbefore,
     endtime |-> p.o_time + p.plot_tafter]

\* the window the data are read over
MigrationWindow(p) ==
    [starttime |-> (p.o_time - p.plot_tbefore) - MaxOf(p.ttimes),
     endtime |-> (p.o_time + p.plot_tafter) + MaxOf(p.ttimes)]

\* the two reads: data_dict and mig_dict with their delta, or an exception
PlotReads(p) ==
    [data |-> read_data_compatible_with_time_dict(
                  p.data_files, DOMAIN p.ttimes,
                  MigrationWindow(p).starttime, MigrationWindow(p).endtime),
     mig |-> read_data_compatible_with_time_dict(
                  p.mig_files, DOMAIN p.ttimes,
                  MigrationWindow(p).starttime, MigrationWindow(p).endtime)]

\* the cuts, given the reads r: what plotLocationWaveforms is handed
PlotCuts(p, r, start_time, delta) ==
    [exc |-> "none",
     start_time |-> StackCut(p, start_time, delta).start_time,
     delta |-> delta,
     cut |-> [sta \in DOMAIN r.data.data |->
                 StationCut(p, start_time, MigrationWindow(p).starttime,
                            delta, sta, r.data.data[sta])],
     data_dict |-> [sta \in DOMAIN r.data.data |->
         PySlice(r.data.data[sta],
                 StationCut(p, start_time, MigrationWindow(p).starttime,
                            delta, sta, r.data.data[sta]).istart,
                 StationCut(p, start_time, MigrationWindow(p).starttime,
                            delta, sta, r.data.data[sta]).iend)],
     mig_dict |-> [sta \in DOMAIN r.mig.data |->
         IF sta \in DOMAIN r.data.data
         THEN PySlice(r.mig.data[sta],
                 StationCut(p, start_time, MigrationWindow(p).starttime,
                            delta, sta, r.data.data[sta]).istart,
                 StationCut(p, start_time, MigrationWindow(p).starttime,
                            delta, sta, r.data.data[sta]).iend)
         ELSE r.mig.data[sta]],
     stack_wfm |-> PySlice(p.max_val, StackCut(p, start_time, delta).istart,
                           StackCut(p, start_time, delta).iend)]

\* what plotLocationWaveforms is handed, or the exception that came first
PlotWaveforms(p, r) ==
    IF r.data.exc # "none" THEN PlotFailed(r.data.exc)
    ELSE IF r.mig.exc # "none" THEN PlotFailed(r.mig.exc)
    ELSE IF \E sta \in DOMAIN r.data.data : sta \notin DOMAIN r.mig.data
    THEN PlotFailed("KeyError")
    ELSE PlotCuts(p, r, p.o_time - p.plot_tbefore, r.mig.delta)

(***************************************************************************)
(* Specification SpecPlot: one location.  Sample j of a file, and of the    *)
(* stack, has the value j + 1; padding is 0.                                *)
(***************************************************************************)
PlotDelta == 2
PlotOTime == 40
PlotBefore == 4
PlotAfter == 4

\* files that reach past every window, from their start on
LongFile(sta, start) ==
    File(sta, PlotDelta, start, Ramp((60 - start) \div PlotDelta))

DataFilesOf(sta) ==
    {<<LongFile(sta, t)>> : t \in {20, 21, 34, 38}}
        \cup {<<File(sta, PlotDelta, 20, Ramp(12))>>}

MigFilesOf(sta) == {<<LongFile(sta, t)>> : t \in {20, 34}} \cup {<<>>}

PlotInputs ==
    {[o_time |-> PlotOTime, plot_tbefore |-> PlotBefore, plot_tafter |-> af,
      ttimes |-> [A |-> ta, B |-> tb],
      data_files |-> da \o db, mig_files |-> ma \o mb,
      stack_start_time |-> ss, max_val |-> Ramp(sl), result |-> Null] :
        ta \in {0, 1, 2, 4}, tb \in {0, 4},
        da \in DataFilesOf("A"), db \in DataFilesOf("B"),
        ma \in MigFilesOf("A"), mb \in MigFilesOf("B"),
        ss \in {20, 38}, sl \in {6, 30}, af \in {PlotAfter - 1, PlotAfter}}

InitPlot ==
    /\ pl \in PlotInputs
    /\ Holds(<<>>)
    /\ numpy = "IndexError"
    /\ calls = <<>>
    /\ loc = Null /\ rd = Null

Call_do_plotting_setup_and_run ==
    /\ pc = "call"
    /\ rd' = PlotReads(pl)
    /\ pl' = [pl EXCEPT !.result = PlotWaveforms(pl, rd')]
    /\ pc' = "done"
    /\ op' = [name |-> "do_plotting_setup_and_run"]
    /\ exc' = pl'.result.exc
    /\ UNCHANGED <<calls, stream, trace, proc, at, pre, numpy, loc>>

NextPlot == Call_do_plotting_setup_and_run

SpecPlot == InitPlot /\ [][NextPlot]_vars

Plotted ==
    pc = "done" /\ op.name = "do_plotting_setup_and_run" /\ exc = "none"

\* the file the data of station sta come from (the last one of that station)
FileOf(files, sta) ==
    files[CHOOSE i \in 1..Len(files) :
              /\ files[i].station = sta
              /\ \A j \in (i + 1)..Len(files) : files[j].station # sta]

\* sample k (from 0) of window w, cut from file f for a station of travel
\* time tt, was recorded within half a sample of start_time + tt + k*delta;
\* padding (0) was not recorded
AlignedWindow(w, f, tt) ==
    \A k \in 0..(Len(w) - 1) :
        At0(w, k) # 0 =>
            2 * Abs((f.starttime + (At0(w, k) - 1) * f.delta)
                    - ((pl.o_time - pl.plot_tbefore) + tt + k * pl.result.delta))
                <= pl.result.delta

\* C1: for every station, sample k of the window cut from the data read
\* over the migration window is the sample recorded at
\* start_time + tt(station) + k*delta, to within half a sample interval,
\* with start_time = o_time - plot_tbefore.
C1_WindowAlignedOnOrigin ==
    Plotted =>
        \A sta \in DOMAIN pl.result.data_dict :
            /\ AlignedWindow(pl.result.data_dict[sta],
                             FileOf(pl.data_files, sta), pl.ttimes[sta])
            /\ AlignedWindow(pl.result.mig_dict[sta],
                             FileOf(pl.mig_files, sta), pl.ttimes[sta])

\* the file of station sta in files reaches from the start of the migration
\* window, or before it, to its end, or after it
Covers(files, sta) ==
    /\ \E i \in 1..Len(files) : files[i].station = sta
    /\ FileOf(files, sta).starttime <= MigrationWindow(pl).starttime
    /\ EndTime(FileOf(files, sta)) >= MigrationWindow(pl).endtime

\* round((plot_tbefore + plot_tafter)/delta)
WindowSamplesOf(p) == RoundHalfEven(p.plot_tbefore + p.plot_tafter, p.result.delta)

\* C22: the data are read over [start_time - tmax, end_time + tmax], so
\* for every station with a travel time in [0, tmax] whose arrays cover
\* that window the cut needs no clamping: 0 <= istart <= iend <= len(data)
\* with iend - istart = round((plot_tbefore + plot_tafter)/delta), and the
\* station's data window and migration window both have that length.
C22_CutsNeedNoClamping ==
    Plotted =>
        \A sta \in DOMAIN pl.result.data_dict :
            (/\ pl.ttimes[sta] >= 0
             /\ Covers(pl.data_files, sta)
             /\ Covers(pl.mig_files, sta)) =>
                /\ 0 <= pl.result.cut[sta].istart
                /\ pl.result.cut[sta].istart <= pl.result.cut[sta].iend
                /\ pl.result.cut[sta].iend <= Len(rd.data.data[sta])
                /\ pl.result.cut[sta].iend - pl.result.cut[sta].istart
                       = WindowSamplesOf(pl)
                /\ Len(pl.result.data_dict[sta]) = WindowSamplesOf(pl)
                /\ Len(pl.result.mig_dict[sta]) = WindowSamplesOf(pl)

C22_Witness ==
    /\ Plotted
    /\ \E sta \in DOMAIN pl.result.data_dict :
          /\ Covers(pl.data_files, sta) /\ Covers(pl.mig_files, sta)
          /\ pl.ttimes[sta] = MaxOf(pl.ttimes) /\ pl.ttimes[sta] > 0
          /\ (pl.plot_tbefore + pl.plot_tafter) % pl.result.delta # 0
          /\ pl.result.cut[sta].istart > 0
          /\ pl.result.cut[sta].iend = Len(rd.data.data[sta])
          /\ Len(pl.result.data_dict[sta]) = WindowSamplesOf(pl)

\* the cut of the stack as lines 150-161 make it
StackCutOf(p) == StackCut(p, p.o_time - p.plot_tbefore, p.result.delta)

\* sample 0 of the window w cut from the file f, when it was recorded and is
\* not padding, was recorded within half a sample of time t
StartsAt(w, f, t) ==
    (Len(w) > 0 /\ w[1] # 0) =>
        2 * Abs((f.starttime + (w[1] - 1) * f.delta) - t) <= pl.result.delta

\* C23: for every location, also one close to, before or after the start
\* or the end of the stack, the sanity checks leave valid slice bounds
\* (0 <= istart <= iend <= length) for the stack and for every station, and
\* aligned windows: sample 0 of the stack window is the stack at the
\* start_time handed to plotLocationWaveforms, sample 0 of every station
\* window is that station's sample for that start_time, and all windows
\* have as many samples as the stack window.
C23_WindowsStayAligned ==
    Plotted =>
        /\ 0 <= StackCutOf(pl).istart
        /\ StackCutOf(pl).istart <= StackCutOf(pl).iend
        /\ StackCutOf(pl).iend <= Len(pl.max_val)
        /\ StartsAt(pl.result.stack_wfm,
                    [starttime |-> pl.stack_start_time, delta |-> pl.result.delta],
                    pl.result.start_time)
        /\ \A sta \in DOMAIN pl.result.data_dict :
              /\ 0 <= pl.result.cut[sta].istart
              /\ pl.result.cut[sta].istart <= pl.result.cut[sta].iend
              /\ pl.result.cut[sta].iend <= Len(rd.data.data[sta])
              /\ StartsAt(pl.result.data_dict[sta], FileOf(pl.data_files, sta),
                          pl.result.start_time + pl.ttimes[sta])
              /\ StartsAt(pl.result.mig_dict[sta], FileOf(pl.mig_files, sta),
                          pl.result.start_time + pl.ttimes[sta])
              /\ Len(pl.result.data_dict[sta]) = Len(pl.result.stack_wfm)
              /\ Len(pl.result.mig_dict[sta]) = Len(pl.result.stack_wfm)

(***************************************************************************)
(* Properties of process_gaussian.  For trace i of the call, loc.tr[i]      *)
(* holds trigs (what triggerOnset gave), hist (the successive values of     *)
(* trig_prec), dirac (tr_dirac after the trigger loop); pre[i] is the trace *)
(* before the call and stream[i] the trace after it.                        *)
(***************************************************************************)
GaussTraceIds == IF GaussRan THEN 1..Len(pre) ELSE {}

\* trigger k of trace i was folded into the interval before it
Merged(i, k) == k >= 2 /\ loc.tr[i].hist[k][1] = loc.tr[i].hist[k - 1][1]

\* the intervals that are left when the loop ends: the values of trig_prec
\* that no later trigger extended
Finals(i) ==
    {loc.tr[i].hist[k] : k \in {j \in 1..Len(loc.tr[i].hist) :
                                  j = Len(loc.tr[i].hist) \/ ~Merged(i, j + 1)}}

\* j is the first index of the largest sample of data within t
IsFirstMax(data, t, j) ==
    /\ j \in t[1]..t[2]
    /\ \A k \in t[1]..t[2] : At0(data, k) <= At0(data, j)
    /\ \A k \in t[1]..(j - 1) : At0(data, k) < At0(data, j)

Peaks(i) ==
    {j \in 0..(Len(pre[i].data) - 1) :
        \E t \in Finals(i) : IsFirstMax(pre[i].data, t, j)}

NonZeroIds(x) == {j \in 0..(Len(x) - 1) : At0(x, j) # 0}

RECURSIVE SumAt(_, _)
SumAt(x, S) ==
    IF S = {} THEN 0
    ELSE LET j == CHOOSE e \in S : TRUE IN At0(x, j) + SumAt(x, S \ {j})

\* C5: two consecutive trigger intervals are merged exactly when the start
\* of the later one minus the end of the earlier one is below 50 samples.
C5_MergedIffGapBelowMin ==
    \A i \in GaussTraceIds : \A k \in 2..Len(loc.tr[i].trigs) :
        Merged(i, k)
            <=> loc.tr[i].trigs[k][1] - loc.tr[i].trigs[k - 1][2] < MinGap

\* C5, as the code has it: a trigger interval is folded into the interval
\* before it (itself possibly the result of earlier folds, and <<0, 0>>
\* before the first trigger) exactly when its end minus the START of that
\* interval is below 50 samples; the folded interval keeps that start.
C5_MergedIffSpanBelowMin ==
    \A i \in GaussTraceIds : \A k \in 1..Len(loc.tr[i].trigs) :
        LET prec == IF k = 1 THEN <<0, 0>> ELSE loc.tr[i].hist[k - 1]
            trig == loc.tr[i].trigs[k]
        IN  /\ Len(loc.tr[i].hist) = Len(loc.tr[i].trigs)
            /\ loc.tr[i].hist[k] =
                 IF trig[2] - prec[1] < MinGap THEN <<prec[1], trig[2]>> ELSE trig
            /\ k >= 2 => (Merged(i, k) <=> trig[2] - prec[1] < MinGap)

\* a trace where one trigger was folded and another, less than 50 samples
\* after the end of the interval before it, was not
C5_Witness ==
    \E i \in GaussTraceIds :
        /\ \E k \in 2..Len(loc.tr[i].trigs) : Merged(i, k)
        /\ \E k \in 2..Len(loc.tr[i].trigs) :
              /\ ~Merged(i, k)
              /\ loc.tr[i].trigs[k][1] - loc.tr[i].trigs[k - 1][2] < MinGap

KernelFits(i) ==
    /\ Len(pre[i].data) >= Len(loc.y)
    /\ \A j \in Peaks(i) :
          /\ j >= Len(loc.y) - Len(loc.y) \div 2
          /\ j <= (Len(pre[i].data) - 1) - Len(loc.y) \div 2

C8_SampleCountPreserved ==
    \A i \in GaussTraceIds :
        /\ Len(stream[i].data) = Len(pre[i].data)
        /\ stream[i].starttime = pre[i].starttime

\* C15: when the convolution fails on a trace because it has no samples,
\* process_gaussian does not raise: that trace is left as it was, the other
\* traces are convolved, and proc ends as 'Gaussian'.
C15_EmptyTraceCaughtNotPropagated ==
    pc = "done" /\ op.name = "process_gaussian"
                /\ (\E i \in 1..Len(pre) : Len(pre[i].data) = 0)
        => /\ exc = "none"
           /\ proc = "Gaussian"
           /\ Len(stream) = Len(pre)
           /\ \A i \in 1..Len(pre) :
                 IF Len(pre[i].data) = 0
                 THEN loc.tr[i].caught /\ stream[i] = pre[i]
                 ELSE /\ ~loc.tr[i].caught
                      /\ stream[i].data =
                            DropFirstAppendZero(ConvolveSame(loc.tr[i].dirac, loc.y))

\* an empty trace, and after it a trace that the call has changed
C15_Witness ==
    /\ pc = "done" /\ op.name = "process_gaussian" /\ proc = "Gaussian"
    /\ \E i, j \in 1..Len(pre) :
          /\ i < j
          /\ Len(pre[i].data) = 0
          /\ Len(pre[j].data) > 0
          /\ stream[j].data # pre[j].data


\* trace i got a single impulse, at index j, at least half a kernel away
\* from both ends, and the kernel, for mu = 0, has an even length 2n with
\* its only maximum at index n
SingleImpulseAt(i, j) ==
    /\ op.mu = 0
    /\ NonZeroIds(loc.tr[i].dirac) = {j}
    /\ Len(loc.y) % 2 = 0
    /\ \A k \in 0..(Len(loc.y) - 1) :
          k # Len(loc.y) \div 2 => At0(loc.y, k) < At0(loc.y, Len(loc.y) \div 2)
    /\ j >= Len(loc.y) \div 2
    /\ (Len(pre[i].data) - 1) - j >= Len(loc.y) \div 2

\* C24: in process_gaussian with mu = 0 and a kernel of even length 2n
\* with its peak at index n, a single impulse at index j, at least n
\* samples away from both ends of the trace, gives an output whose maximum
\* is at index j: the convolution in mode 'same', the first sample dropped
\* and a zero appended, shifts nothing.
C24_ImpulseKeepsItsIndex ==
    \A i \in GaussTraceIds : \A j \in 0..(Len(pre[i].data) - 1) :
        SingleImpulseAt(i, j) =>
            \A k \in 0..(Len(stream[i].data) - 1) :
                k # j => At0(stream[i].data, k) < At0(stream[i].data, j)

C24_Witness ==
    \E i \in GaussTraceIds : \E j \in 0..(Len(pre[i].data) - 1) :
        /\ SingleImpulseAt(i, j)
        /\ Len(loc.y) = 16
        /\ At0(stream[i].data, j) = 2 * 1000
        /\ At0(stream[i].data, j - 1) > 0
        /\ At0(stream[i].data, j + 1) > 0

====
